---- MODULE Spec2Model ----
(***************************************************************************)
(* Model of the VoxelWorld facade of bevy_voxel_world                      *)
(* (src/src/voxel_world.rs): the three-tier voxel resolver built by        *)
(* get_voxel_fn (write buffer, modified-voxels overlay, chunk map) and the *)
(* surface search that walks a column with it.                             *)
(***************************************************************************)
EXTENDS Integers, Sequences, FiniteSets, TLC

(* ------------------------------------------------------------------ *)
(* Bounds of the model and constants of the program                    *)
(* ------------------------------------------------------------------ *)

\* Longest write buffer the model lets set_voxel build.
MaxBuffer == 2

\* Most entries the model lets the overlay hold.
MaxOverlay == 1

\* Edge length of a chunk (crate::chunk::CHUNK_SIZE, 32 in the crate), scaled down.
ChunkSize == 2

\* Largest x of the modelled columns (x ranges over 0..MaxX).
MaxX == 1

\* Levels of the modelled window below and above the depth bound of the search.
Below == 2
Above == 4

\* The depth bound of get_closest_surface_voxel: `if current_pos.y < -256`.
SearchFloor == -256

(* ------------------------------------------------------------------ *)
(* Voxels and positions                                                *)
(* ------------------------------------------------------------------ *)

\* WorldVoxel::Unset, WorldVoxel::Air, WorldVoxel::Solid(material).
Unset == [tag |-> "Unset", mat |-> 0]
Air == [tag |-> "Air", mat |-> 0]
Solid(m) == [tag |-> "Solid", mat |-> m]

\* WorldVoxel::is_solid.
is_solid(voxel) == voxel.tag = "Solid"

\* IVec3::Y.
IVec3_Y == <<0, 1, 0>>

\* IVec3 addition and subtraction.
Add(a, b) == <<a[1] + b[1], a[2] + b[2], a[3] + b[3]>>
Sub(a, b) == <<a[1] - b[1], a[2] - b[2], a[3] - b[3]>>

YLow == SearchFloor - Below
YHigh == SearchFloor + Above

\* The voxel positions of the modelled window: a few columns around the depth bound.
Positions == {<<x, y, 0>> : x \in 0..MaxX, y \in YLow..YHigh}

\* The positions the resolver specification queries: three levels of one column, the
\* lowest in one chunk and the upper two in the next. set_voxel is given the upper
\* two and the overlay writer the lower two, so the middle one can be in every tier.
EditPositions == {<<0, y, 0>> : y \in (SearchFloor - 1)..(SearchFloor + 1)}
WritePositions == {<<0, y, 0>> : y \in SearchFloor..(SearchFloor + 1)}
OverlayPositions == {<<0, y, 0>> : y \in (SearchFloor - 1)..SearchFloor}

\* get_chunk_voxel_position: the owning chunk (floor division by the chunk edge)
\* and the position local to it.
get_chunk_voxel_position(position) ==
    [chunk_pos |-> <<position[1] \div ChunkSize, position[2] \div ChunkSize,
                     position[3] \div ChunkSize>>,
     vox_pos |-> <<position[1] % ChunkSize, position[2] % ChunkSize,
                   position[3] % ChunkSize>>]

LocalPositions == {<<x, y, z>> : x \in 0..(ChunkSize - 1), y \in 0..(ChunkSize - 1),
                                 z \in 0..(ChunkSize - 1)}

ChunkPositions(positions) == {get_chunk_voxel_position(p).chunk_pos : p \in positions}

\* The voxel source callback: terrain that is solid below a sea level and air above
\* (the shape of the generator in benches/line_traversal.rs).
SeaLevels == {YLow, SearchFloor - 1, SearchFloor + 1, YHigh + 1}
Generators == {[sea_level |-> h, material |-> 1] : h \in SeaLevels}

generate_voxel(generator, position) ==
    IF position[2] < generator.sea_level THEN Solid(generator.material) ELSE Air

\* Chunk data as the chunk loader builds it for chunk_pos from a generator: the voxels,
\* and the is_empty flag of a chunk that holds no solid voxel.
generate_chunk(generator, chunk_pos) ==
    LET voxels == [l \in LocalPositions |->
            generate_voxel(generator,
                <<chunk_pos[1] * ChunkSize + l[1], chunk_pos[2] * ChunkSize + l[2],
                  chunk_pos[3] * ChunkSize + l[3]>>)]
    IN [voxels |-> voxels,
        is_empty |-> \A l \in LocalPositions : ~is_solid(voxels[l])]

\* ChunkData::get_voxel.
chunk_get_voxel(chunk_data, vox_pos) == chunk_data.voxels[vox_pos]

\* The values set_voxel and the overlay writer are given.
EditVoxels == {Air, Solid(2)}
OverlayVoxels == {Air, Solid(3)}

(* ------------------------------------------------------------------ *)
(* State                                                               *)
(* ------------------------------------------------------------------ *)

VARIABLES
    voxel_write_buffer, \* VoxelWorld.voxel_write_buffer: sequence of <<position, voxel>>
    modified_voxels,    \* VoxelWorld.modified_voxels: map position -> voxel (the overlay)
    chunk_map,          \* VoxelWorld.chunk_map: map chunk position -> chunk data
    voxel_fn,           \* the closure last returned by get_voxel_fn, or NoFn
    since_fn,           \* the latest change of overlay or chunk map after voxel_fn was made
    ret,                \* the last operation and what it returned
    lock,               \* the RwLock of the chunk map: who reads, who writes, who waits
    threads             \* the operations in progress, by thread

vars == <<voxel_write_buffer, modified_voxels, chunk_map, voxel_fn, since_fn, ret,
          lock, threads>>

EmptyMap == [x \in {} |-> Unset]

NoFn == [made |-> FALSE, write_buffer |-> <<>>]
NoRet == [op |-> "none"]
NoChange == [kind |-> "none"]

\* The lock of the chunk map with no holder: the read guards held by each thread (a
\* sequence of thread ids, one per guard), the thread holding the write guard, the
\* threads blocked in write(), and the policy of the lock, which std::sync::RwLock
\* leaves to the platform: whether a blocked writer holds back new readers.
Unlocked == [readers |-> <<>>, writer |-> "none", waiting |-> {}, writer_first |-> FALSE]

\* No operation is in progress.
NoThreads == [t \in {} |-> [pc |-> "idle"]]

Init ==
    /\ voxel_write_buffer = <<>>
    /\ modified_voxels = EmptyMap
    /\ chunk_map = EmptyMap
    /\ voxel_fn = NoFn
    /\ since_fn = NoChange
    /\ ret = NoRet
    /\ lock = Unlocked
    /\ threads = NoThreads

(* ------------------------------------------------------------------ *)
(* The resolver                                                        *)
(* ------------------------------------------------------------------ *)

\* Mutant of find_first: the last entry for position wins (rfind, or a map built
\* from the buffer).
find_last(write_buffer, position) ==
    LET hits == {i \in 1..Len(write_buffer) : write_buffer[i][1] = position}
    IN IF hits = {} THEN 0 ELSE CHOOSE i \in hits : \A j \in hits : i >= j

\* write_buffer.iter().find(|(pos, _)| *pos == position): the index of the first
\* entry for position, 0 when there is none.
find_first(write_buffer, position) ==
    LET hits == {i \in 1..Len(write_buffer) : write_buffer[i][1] = position}
    IN IF hits = {} THEN 0 ELSE CHOOSE i \in hits : \A j \in hits : i <= j

\* ModifiedVoxels::get_voxel: Some(voxel) or None.
overlay_has(overlay, position) == position \in DOMAIN overlay

\* The chunk tier of the closure: the chunk map is read, and the local voxel of the
\* owning chunk returned when it is loaded.
chunk_tier(chunks, position) ==
    LET cv == get_chunk_voxel_position(position)
    IN IF cv.chunk_pos \in DOMAIN chunks
       THEN chunk_get_voxel(chunks[cv.chunk_pos], cv.vox_pos)
       ELSE Unset

\* Mutant of resolve: the overlay is consulted before the write buffer.
resolve_overlay_first(write_buffer, overlay, chunks, position) ==
    LET i == find_first(write_buffer, position)
    IN IF overlay_has(overlay, position) THEN overlay[position]
       ELSE IF i # 0 THEN write_buffer[i][2]
       ELSE chunk_tier(chunks, position)

\* Mutant of resolve: a loaded chunk answers before the write buffer and the overlay.
resolve_chunk_first(write_buffer, overlay, chunks, position) ==
    LET i == find_first(write_buffer, position)
    IN IF get_chunk_voxel_position(position).chunk_pos \in DOMAIN chunks
       THEN chunk_tier(chunks, position)
       ELSE IF i # 0 THEN write_buffer[i][2]
       ELSE IF overlay_has(overlay, position) THEN overlay[position]
       ELSE Unset

\* Mutant of resolve: the overlay is only a fallback for a chunk that is not loaded.
resolve_overlay_fallback(write_buffer, overlay, chunks, position) ==
    LET i == find_first(write_buffer, position)
    IN IF i # 0 THEN write_buffer[i][2]
       ELSE IF get_chunk_voxel_position(position).chunk_pos \in DOMAIN chunks
       THEN chunk_tier(chunks, position)
       ELSE IF overlay_has(overlay, position) THEN overlay[position]
       ELSE Unset

\* The body of the closure get_voxel_fn returns, over the three structures it holds.
resolve(write_buffer, overlay, chunks, position) ==
    LET i == find_first(write_buffer, position)
    IN IF i # 0 THEN write_buffer[i][2]
       ELSE IF overlay_has(overlay, position) THEN overlay[position]
       ELSE chunk_tier(chunks, position)

\* What get_voxel_fn moves into the closure: a clone of the write buffer (the
\* facade's buffer is an owned vector behind ResMut, so the clone is a copy) ...
clone_write_buffer == voxel_write_buffer

\* Mutant of ClosureWriteBuffer: the closure reads the facade's buffer itself.
ClosureWriteBufferLive == voxel_write_buffer

\* Mutant of ClosureChunkMap: the closure holds a map of its own, which no loader fills.
ClosureChunkMapOwn == EmptyMap

\* ... and handles on the overlay and the chunk map, which alias the shared maps.
ClosureWriteBuffer == voxel_fn.write_buffer
ClosureModifiedVoxels == modified_voxels
ClosureChunkMap == chunk_map

\* The value a call of the closure voxel_fn returns at position.
voxel_fn_value(position) ==
    resolve(ClosureWriteBuffer, ClosureModifiedVoxels, ClosureChunkMap, position)

\* The value get_voxel returns: a closure made on the spot and called once.
get_voxel_value(position) ==
    resolve(clone_write_buffer, modified_voxels, chunk_map, position)

\* Mutant of set_voxel: a pending entry for the position is overwritten in place.
set_voxel_dedup(position, voxel) ==
    /\ voxel_write_buffer' =
         IF find_first(voxel_write_buffer, position) = 0
         THEN Append(voxel_write_buffer, <<position, voxel>>)
         ELSE [voxel_write_buffer EXCEPT
                 ![find_first(voxel_write_buffer, position)] = <<position, voxel>>]
    /\ ret' = [op |-> "set_voxel", position |-> position, voxel |-> voxel]
    /\ UNCHANGED <<modified_voxels, chunk_map, voxel_fn, since_fn>>
    /\ UNCHANGED <<lock, threads>>

\* VoxelWorld::set_voxel.
set_voxel(position, voxel) ==
    /\ voxel_write_buffer' = Append(voxel_write_buffer, <<position, voxel>>)
    /\ ret' = [op |-> "set_voxel", position |-> position, voxel |-> voxel]
    /\ UNCHANGED <<modified_voxels, chunk_map, voxel_fn, since_fn>>
    /\ UNCHANGED <<lock, threads>>

\* Mutant of get_voxel: the read takes the matching entry out of the write buffer.
get_voxel_taking(position) ==
    /\ ret' = [op |-> "get_voxel", position |-> position,
               voxel |-> get_voxel_value(position)]
    /\ voxel_write_buffer' =
         LET i == find_first(voxel_write_buffer, position)
         IN IF i = 0 THEN voxel_write_buffer
            ELSE SubSeq(voxel_write_buffer, 1, i - 1)
                 \o SubSeq(voxel_write_buffer, i + 1, Len(voxel_write_buffer))
    /\ UNCHANGED <<modified_voxels, chunk_map, voxel_fn, since_fn>>
    /\ UNCHANGED <<lock, threads>>

\* VoxelWorld::get_voxel.
get_voxel(position) ==
    /\ ret' = [op |-> "get_voxel", position |-> position,
               voxel |-> get_voxel_value(position)]
    /\ UNCHANGED <<voxel_write_buffer, modified_voxels, chunk_map, voxel_fn, since_fn>>
    /\ UNCHANGED <<lock, threads>>

\* VoxelWorld::get_voxel_fn: the caller keeps the closure.
get_voxel_fn ==
    /\ voxel_fn' = [made |-> TRUE, write_buffer |-> clone_write_buffer]
    /\ since_fn' = NoChange
    /\ ret' = NoRet
    /\ UNCHANGED <<voxel_write_buffer, modified_voxels, chunk_map>>
    /\ UNCHANGED <<lock, threads>>

\* A call of the kept closure.
call_voxel_fn(position) ==
    /\ voxel_fn.made
    /\ ret' = [op |-> "voxel_fn", position |-> position,
               voxel |-> voxel_fn_value(position)]
    /\ UNCHANGED <<voxel_write_buffer, modified_voxels, chunk_map, voxel_fn, since_fn>>
    /\ UNCHANGED <<lock, threads>>

(* ------------------------------------------------------------------ *)
(* The surface search                                                  *)
(* ------------------------------------------------------------------ *)

\* Mutant of start_is_empty: only the Unset test is made, so a solid start searches.
start_is_not_unset(current_voxel) == current_voxel # Unset

\* `current_voxel == WorldVoxel::Unset || current_voxel == WorldVoxel::Air`: the
\* search runs only from a start that is not solid.
start_is_empty(current_voxel) == current_voxel = Unset \/ current_voxel = Air

\* The closure is_surface of get_closest_surface_voxel.
is_surface(pos) ==
    LET above == Add(pos, IVec3_Y)
    IN /\ (get_voxel_value(pos) # Unset /\ get_voxel_value(pos) # Air)
       /\ (get_voxel_value(above) = Unset \/ get_voxel_value(above) = Air)

\* The positions is_surface(pos) resolves: pos, and the voxel above it when the
\* first conjunct holds (&& does not evaluate its right side otherwise).
is_surface_reads(pos) ==
    {pos} \cup
    (IF get_voxel_value(pos) # Unset /\ get_voxel_value(pos) # Air
     THEN {Add(pos, IVec3_Y)} ELSE {})

\* Mutant of step_down: the walk descends two levels at a time.
step_down_two(current_pos) == Sub(current_pos, <<0, 2, 0>>)

\* Mutant of below_depth_bound: the bound is tested one level late.
below_depth_bound_late(current_pos) == current_pos[2] < SearchFloor - 1

\* `current_pos -= IVec3::Y`.
step_down(current_pos) == Sub(current_pos, IVec3_Y)

\* `current_pos.y < -256`.
below_depth_bound(current_pos) == current_pos[2] < SearchFloor

\* The result of the search: found or not, the hit, the positions resolved on the
\* way and the number of times the loop tested is_surface.
SurfaceResult(found, hit_position, hit_voxel, resolved, iterations) ==
    [found |-> found, hit_position |-> hit_position, hit_voxel |-> hit_voxel,
     resolved |-> resolved, iterations |-> iterations]

\* `while !is_surface(current_pos) { ... }` and the return after it.
RECURSIVE surface_walk(_, _, _)
surface_walk(current_pos, resolved, iterations) ==
    LET seen == resolved \cup is_surface_reads(current_pos)
    IN IF is_surface(current_pos)
       THEN SurfaceResult(TRUE, current_pos, get_voxel_value(current_pos), seen,
                          iterations + 1)
       ELSE IF below_depth_bound(step_down(current_pos))
       THEN SurfaceResult(FALSE, step_down(current_pos), Unset, seen, iterations + 1)
       ELSE surface_walk(step_down(current_pos), seen, iterations + 1)

\* The body of get_closest_surface_voxel.
closest_surface_voxel(position) ==
    IF start_is_empty(get_voxel_value(position))
    THEN surface_walk(position, {position}, 0)
    ELSE SurfaceResult(FALSE, position, Unset, {position}, 0)

\* VoxelWorld::get_closest_surface_voxel.
get_closest_surface_voxel(position) ==
    /\ ret' = [op |-> "get_closest_surface_voxel", position |-> position,
               result |-> closest_surface_voxel(position)]
    /\ UNCHANGED <<voxel_write_buffer, modified_voxels, chunk_map, voxel_fn, since_fn>>
    /\ UNCHANGED <<lock, threads>>

(* ------------------------------------------------------------------ *)
(* The external writers of the overlay and of the chunk map            *)
(* ------------------------------------------------------------------ *)

\* The record of a change for since_fn: which map, and the position or chunk changed.
Changed(kind, target) ==
    IF voxel_fn.made THEN [kind |-> kind, target |-> target] ELSE NoChange

\* The commit step's write of one overlay entry.
overlay_write(position, voxel) ==
    /\ modified_voxels' =
         [p \in DOMAIN modified_voxels \cup {position} |->
             IF p = position THEN voxel ELSE modified_voxels[p]]
    /\ since_fn' = Changed("overlay", position)
    /\ ret' = NoRet
    /\ UNCHANGED <<voxel_write_buffer, chunk_map, voxel_fn>>
    /\ UNCHANGED <<lock, threads>>

\* An overlay entry is cleared.
overlay_clear(position) ==
    /\ position \in DOMAIN modified_voxels
    /\ modified_voxels' = [p \in DOMAIN modified_voxels \ {position} |-> modified_voxels[p]]
    /\ since_fn' = Changed("overlay", position)
    /\ ret' = NoRet
    /\ UNCHANGED <<voxel_write_buffer, chunk_map, voxel_fn>>
    /\ UNCHANGED <<lock, threads>>

\* The chunk loader inserts freshly generated data for a chunk that is not loaded.
chunk_load(chunk_pos, generator) ==
    /\ chunk_pos \notin DOMAIN chunk_map
    /\ chunk_map' =
         [c \in DOMAIN chunk_map \cup {chunk_pos} |->
             IF c = chunk_pos THEN generate_chunk(generator, chunk_pos) ELSE chunk_map[c]]
    /\ since_fn' = Changed("chunk", chunk_pos)
    /\ ret' = NoRet
    /\ UNCHANGED <<voxel_write_buffer, modified_voxels, voxel_fn>>
    /\ UNCHANGED <<lock, threads>>

\* The chunk loader removes a loaded chunk.
chunk_unload(chunk_pos) ==
    /\ chunk_pos \in DOMAIN chunk_map
    /\ chunk_map' = [c \in DOMAIN chunk_map \ {chunk_pos} |-> chunk_map[c]]
    /\ since_fn' = Changed("chunk", chunk_pos)
    /\ ret' = NoRet
    /\ UNCHANGED <<voxel_write_buffer, modified_voxels, voxel_fn>>
    /\ UNCHANGED <<lock, threads>>

(* ------------------------------------------------------------------ *)
(* Spec: the facade's set_voxel and get_voxel over a changing world    *)
(* ------------------------------------------------------------------ *)

SetVoxel ==
    \E p \in WritePositions, v \in EditVoxels :
        Len(voxel_write_buffer) < MaxBuffer /\ set_voxel(p, v)

GetVoxel == \E p \in EditPositions : get_voxel(p)

OverlayWrite ==
    \E p \in OverlayPositions, v \in OverlayVoxels :
        /\ Cardinality(DOMAIN modified_voxels \cup {p}) <= MaxOverlay
        /\ overlay_write(p, v)

OverlayClear == \E p \in OverlayPositions : overlay_clear(p)

ChunkLoad ==
    \E c \in ChunkPositions(EditPositions), g \in Generators : chunk_load(c, g)

ChunkUnload == \E c \in ChunkPositions(EditPositions) : chunk_unload(c)

Next ==
    \/ SetVoxel
    \/ GetVoxel
    \/ OverlayWrite
    \/ OverlayClear
    \/ ChunkLoad
    \/ ChunkUnload

Spec == Init /\ [][Next]_vars

(* ------------------------------------------------------------------ *)
(* SpecFn: a kept closure of get_voxel_fn over a changing world        *)
(* ------------------------------------------------------------------ *)

\* The overlay writer of this specification writes one position, and its chunk loader
\* draws from two generators.
FnOverlayPositions == {<<0, SearchFloor, 0>>}
FnGenerators == {g \in Generators : g.sea_level \in {SearchFloor - 1, SearchFloor + 1}}

FnSetVoxel ==
    \E p \in WritePositions, v \in EditVoxels :
        Len(voxel_write_buffer) < MaxBuffer /\ set_voxel(p, v)

FnGetVoxel == \E p \in EditPositions : get_voxel(p)

GetVoxelFn == get_voxel_fn

CallVoxelFn == \E p \in EditPositions : call_voxel_fn(p)

FnOverlayWrite ==
    \E p \in FnOverlayPositions, v \in OverlayVoxels : overlay_write(p, v)

FnOverlayClear == \E p \in FnOverlayPositions : overlay_clear(p)

FnChunkLoad ==
    \E c \in ChunkPositions(EditPositions), g \in FnGenerators : chunk_load(c, g)

FnChunkUnload == \E c \in ChunkPositions(EditPositions) : chunk_unload(c)

NextFn ==
    \/ FnSetVoxel
    \/ FnGetVoxel
    \/ GetVoxelFn
    \/ CallVoxelFn
    \/ FnOverlayWrite
    \/ FnOverlayClear
    \/ FnChunkLoad
    \/ FnChunkUnload

SpecFn == Init /\ [][NextFn]_vars

(* ------------------------------------------------------------------ *)
(* SpecSurface: the surface search over columns around the depth bound *)
(* ------------------------------------------------------------------ *)

\* The column set_voxel edits in this specification; the searches start in every
\* column of the window.
SurfacePositions == {p \in Positions : p[1] = 0}

SurfaceSetVoxel ==
    \E p \in SurfacePositions, v \in EditVoxels :
        voxel_write_buffer = <<>> /\ set_voxel(p, v)

SurfaceChunkLoad ==
    \E c \in ChunkPositions(Positions), g \in Generators : chunk_load(c, g)

SurfaceChunkUnload == \E c \in ChunkPositions(Positions) : chunk_unload(c)

GetClosestSurfaceVoxel == \E p \in Positions : get_closest_surface_voxel(p)

NextSurface ==
    \/ SurfaceSetVoxel
    \/ SurfaceChunkLoad
    \/ SurfaceChunkUnload
    \/ GetClosestSurfaceVoxel

SpecSurface == Init /\ [][NextSurface]_vars

(* ------------------------------------------------------------------ *)
(* The random surface search                                           *)
(* ------------------------------------------------------------------ *)

\* `while tries < 100`: the attempt cap of get_random_surface_voxel.
MaxTries == 100

\* The resolution of the random samples: rand::random::<f32>() is drawn in steps of
\* 1 / SampleScale, so a coordinate x = random * r * 2.0 - r is kept as the integer
\* x * SampleScale.
SampleScale == 2

\* The radius the searches of the model are given.
Radii == {1}

\* `x as i32`: the float-to-integer cast truncates toward zero.
as_i32(scaled) ==
    IF scaled >= 0 THEN scaled \div SampleScale ELSE -((-scaled) \div SampleScale)

\* One coordinate of a sample: random * r * 2.0 - r lies in [-r, r).
SampleCoords(radius) == (-(radius * SampleScale))..(radius * SampleScale - 1)

\* `if y < 0.0 { continue; }` and `if d > r * r { continue; }`.
sample_rejected(radius, x, y, z) ==
    \/ y < 0
    \/ x * x + y * y + z * z > (radius * SampleScale) * (radius * SampleScale)

\* `position + IVec3::new(x as i32, y as i32, z as i32)`.
sample_position(position, x, y, z) ==
    Add(position, <<as_i32(x), as_i32(y), as_i32(z)>>)

\* Mutant of more_tries: the loop allows one attempt more.
more_tries_inclusive(tries) == tries <= MaxTries

\* `while tries < 100`.
more_tries(tries) == tries < MaxTries

\* The thread running get_random_surface_voxel.
RandomThread == "main"

\* The state of a random search: the loop counter, the calls of
\* get_closest_surface_voxel made and failed, and the result once it returned.
RandomSearch(pc, position, radius, tries, calls, failed, result) ==
    [pc |-> pc, op |-> "get_random_surface_voxel", position |-> position,
     radius |-> radius, tries |-> tries, calls |-> calls, failed |-> failed,
     result |-> result]

NoResult == [found |-> FALSE]

\* VoxelWorld::get_random_surface_voxel is entered: `let mut tries = 0`.
random_surface_start(position, radius) ==
    /\ threads' = [t \in {RandomThread} |->
          RandomSearch(IF more_tries(0) THEN "loop" ELSE "done", position, radius,
                       0, 0, 0, NoResult)]
    /\ ret' = NoRet
    /\ UNCHANGED <<voxel_write_buffer, modified_voxels, chunk_map, voxel_fn, since_fn, lock>>

\* One iteration of the loop of get_random_surface_voxel with the sample (x, y, z),
\* up to the test of the loop condition that follows it.
random_surface_iteration(x, y, z) ==
    /\ RandomThread \in DOMAIN threads
    /\ threads[RandomThread].pc = "loop"
    /\ LET s == threads[RandomThread]
           tries == s.tries + 1
           pos == sample_position(s.position, x, y, z)
           result == closest_surface_voxel(pos)
           again == IF more_tries(tries) THEN "loop" ELSE "done"
       IN threads' = [t \in {RandomThread} |->
            IF sample_rejected(s.radius, x, y, z)
            THEN RandomSearch(again, s.position, s.radius, tries, s.calls, s.failed,
                              NoResult)
            ELSE IF result.found
            THEN RandomSearch("done", s.position, s.radius, tries, s.calls + 1,
                              s.failed,
                              [found |-> TRUE, start |-> pos,
                               hit_position |-> result.hit_position,
                               hit_voxel |-> result.hit_voxel])
            ELSE RandomSearch(again, s.position, s.radius, tries, s.calls + 1,
                              s.failed + 1, NoResult)]
    /\ ret' = NoRet
    /\ UNCHANGED <<voxel_write_buffer, modified_voxels, chunk_map, voxel_fn, since_fn, lock>>

(* ------------------------------------------------------------------ *)
(* SpecRandom: random surface searches over worlds of pending edits    *)
(* ------------------------------------------------------------------ *)

\* The centre of the searches, one level above the depth bound, and the positions
\* below the columns a search of radius 1 can sample.
RandomCentre == <<0, SearchFloor + 1, 0>>
RandomEditPositions == {<<x, SearchFloor, 0>> : x \in {-1, 0}}

RandomIdle ==
    RandomThread \in DOMAIN threads => threads[RandomThread].pc = "done"

RandomSetVoxel ==
    \E p \in RandomEditPositions, v \in EditVoxels :
        /\ threads = NoThreads
        /\ voxel_write_buffer = <<>>
        /\ set_voxel(p, v)

RandomSurfaceStart ==
    \E r \in Radii : RandomIdle /\ random_surface_start(RandomCentre, r)

RandomSurfaceIteration ==
    \E r \in Radii : \E x \in SampleCoords(r), y \in SampleCoords(r), z \in SampleCoords(r) :
        /\ RandomThread \in DOMAIN threads
        /\ threads[RandomThread].radius = r
        /\ random_surface_iteration(x, y, z)

NextRandom ==
    \/ RandomSetVoxel
    \/ RandomSurfaceStart
    \/ RandomSurfaceIteration

SpecRandom == Init /\ [][NextRandom]_vars

(* ------------------------------------------------------------------ *)
(* Rays, world bounds and the line traversal                           *)
(* ------------------------------------------------------------------ *)

\* Points (Vec3) are kept in units of 1 / PointScale of a voxel edge. The samples of
\* the stepped raycast lie SamplesPerVoxel to a voxel, at odd coordinates along the
\* ray, so that no sample lies on a cell boundary (the rays do not graze).
SamplesPerVoxel == 2
PointScale == 2 * SamplesPerVoxel

\* `Vec3::floor().as_ivec3()`: the cell a point lies in.
floor_as_ivec3(point) ==
    <<point[1] \div PointScale, point[2] \div PointScale, point[3] \div PointScale>>

\* `IVec3::as_vec3()`: the minimum corner of a cell, as a point.
as_vec3(coords) == <<coords[1] * PointScale, coords[2] * PointScale, coords[3] * PointScale>>

\* A point strictly inside a cell, one sample off its minimum corner on every axis.
PointIn(coords) == Add(as_vec3(coords), <<1, 1, 1>>)

\* Ray3d: an origin and a unit direction along one axis.
Ray3d(origin, direction) == [origin |-> origin, direction |-> direction]

\* The axis a direction runs along, and its sign.
axis_of(direction) == CHOOSE a \in 1..3 : direction[a] # 0
Neg(v) == <<-v[1], -v[2], -v[3]>>

\* The smallest and the largest of a non-empty set of integers.
MinOf(S) == CHOOSE m \in S : \A n \in S : m <= n
MaxOf(S) == CHOOSE m \in S : \A n \in S : m >= n

\* ChunkMap::get_world_bounds: the box enclosing every loaded chunk, in voxels; the
\* empty box when no chunk is loaded.
get_world_bounds(chunks) ==
    IF DOMAIN chunks = {} THEN [empty |-> TRUE]
    ELSE [empty |-> FALSE,
          min |-> [a \in 1..3 |-> ChunkSize * MinOf({c[a] : c \in DOMAIN chunks})],
          max |-> [a \in 1..3 |-> ChunkSize * (MaxOf({c[a] : c \in DOMAIN chunks}) + 1)]]

\* `p.cmplt(loaded_aabb.min).any() || p.cmpgt(loaded_aabb.max).any()`.
outside_bounds(aabb, p) ==
    aabb.empty \/ \E a \in 1..3 : p[a] < aabb.min[a] * PointScale
                                  \/ p[a] > aabb.max[a] * PointScale

\* RayCast3d::aabb_intersection_at for a ray along an axis: the point where the ray
\* enters the box, when it does.
aabb_intersects(aabb, ray) ==
    LET a == axis_of(ray.direction)
    IN /\ ~aabb.empty
       /\ \A b \in 1..3 \ {a} : /\ ray.origin[b] >= aabb.min[b] * PointScale
                                /\ ray.origin[b] <= aabb.max[b] * PointScale
       /\ IF ray.direction[a] > 0 THEN ray.origin[a] <= aabb.max[a] * PointScale
          ELSE ray.origin[a] >= aabb.min[a] * PointScale

aabb_intersection_at(aabb, ray) ==
    LET a == axis_of(ray.direction)
        near == IF ray.direction[a] > 0 THEN aabb.min[a] ELSE aabb.max[a]
    IN [b \in 1..3 |->
          IF b = a /\ outside_bounds(aabb, ray.origin) THEN near * PointScale
          ELSE ray.origin[b]]

\* The point where the ray leaves the box: the intersection of the box with the ray
\* cast back from beyond it.
trace_end_of(aabb, ray) ==
    LET a == axis_of(ray.direction)
        far == IF ray.direction[a] > 0 THEN aabb.max[a] ELSE aabb.min[a]
    IN [b \in 1..3 |-> IF b = a THEN far * PointScale ELSE ray.origin[b]]

\* voxel_line_traversal over a segment along an axis: the cells the segment passes
\* through, in order, each with the face through which the segment enters it (none
\* for a first cell the segment starts inside of).
voxel_line_traversal(trace_start, trace_end, direction) ==
    LET a == axis_of(direction)
        lo == IF trace_start[a] <= trace_end[a] THEN trace_start[a] ELSE trace_end[a]
        hi == IF trace_start[a] <= trace_end[a] THEN trace_end[a] ELSE trace_start[a]
        first == lo \div PointScale
        last == (hi - 1) \div PointScale
        n == IF hi > lo THEN last - first + 1 ELSE 0
        level(i) == IF direction[a] > 0 THEN first + i - 1 ELSE last - i + 1
        cell(i) == [b \in 1..3 |->
                      IF b = a THEN level(i) ELSE trace_start[b] \div PointScale]
        inside(i) == i = 1 /\ trace_start[a] % PointScale # 0
    IN [i \in 1..n |->
          [coords |-> <<cell(i)[1], cell(i)[2], cell(i)[3]>>,
           face |-> IF inside(i) THEN <<0, 0, 0>> ELSE Neg(direction)]]

(* ------------------------------------------------------------------ *)
(* The DDA raycast                                                     *)
(* ------------------------------------------------------------------ *)

\* The filters the raycasts of the model are given: predicates over the candidate
\* position and voxel.
Filters == {"accept_all", "reject_all", "reject_material_2"}

\* Mutant of filter_call: the caller's predicate is not consulted.
filter_call_ignored(filter, position, voxel) == TRUE

\* FilterFn::call.
filter_call(filter, position, voxel) ==
    CASE filter = "accept_all" -> TRUE
      [] filter = "reject_all" -> FALSE
      [] filter = "reject_material_2" -> voxel # Solid(2)

\* WorldVoxel::is_unset.
is_unset(voxel) == voxel = Unset

\* Option<Vec3> of a face: `face.try_into().ok()`.
NoNormal == [some |-> FALSE]
SomeNormal(normal) == [some |-> TRUE, value |-> normal]
\* Mutant of face_normal: the entry face is not passed on as the normal.
face_normal_lost(face) == NoNormal

face_normal(face) == IF face = <<0, 0, 0>> THEN NoNormal ELSE SomeNormal(face)

\* Option<VoxelRaycastResult>.
NoHit == [hit |-> FALSE]
VoxelRaycastResult(position, normal, voxel) ==
    [hit |-> TRUE, position |-> position, normal |-> normal, voxel |-> voxel]

\* Mutant of visit_stops: the traversal stops at any accepted voxel, solid or not.
visit_stops_any(voxel, accepted) == ~is_unset(voxel) /\ accepted

\* The visitor of raycast_fn stops the traversal (and reports the cell) at a voxel
\* that is not Unset, that the filter accepts and that is solid.
visit_stops(voxel, accepted) == ~is_unset(voxel) /\ accepted /\ is_solid(voxel)

\* Mutant of filter_asked: the filter is called whatever the voxel.
filter_asked_always(voxel) == TRUE

\* `!voxel.is_unset() && filter.call(..)`: the filter is called only when the voxel
\* is not Unset.
filter_asked(voxel) == ~is_unset(voxel)

\* The traversal of raycast_fn from cell i of cells on: the result, the cells
\* resolved and the (position, voxel) pairs given to the filter.
RECURSIVE dda_walk(_, _, _, _, _, _)
dda_walk(write_buffer, cells, i, filter, visited, filtered) ==
    IF i > Len(cells)
    THEN [result |-> NoHit, visited |-> visited, filtered |-> filtered]
    ELSE LET voxel_coords == cells[i].coords
             voxel == resolve(write_buffer, modified_voxels, chunk_map, voxel_coords)
             called == filter_asked(voxel)
             accepted == called /\ filter_call(filter, voxel_coords, voxel)
             seen == Append(visited, voxel_coords)
             asked == IF called THEN Append(filtered, <<voxel_coords, voxel>>)
                      ELSE filtered
         IN IF visit_stops(voxel, accepted)
            THEN [result |-> VoxelRaycastResult(voxel_coords,
                                                face_normal(cells[i].face), voxel),
                  visited |-> seen, filtered |-> asked]
            ELSE dda_walk(write_buffer, cells, i + 1, filter, seen, asked)

\* Mutant of dda_segment: the ray is not clamped to the loaded bounds, the traversal
\* runs a fixed number of cells from the origin.
dda_segment_unclamped(ray) ==
    voxel_line_traversal(ray.origin,
                         Add(ray.origin, as_vec3([a \in 1..3 |->
                                                   ray.direction[a] * 2 * ChunkSize])),
                         ray.direction)

\* The segment raycast_fn traverses: none when the origin is outside the loaded
\* bounds and the ray misses them.
dda_segment(ray) ==
    LET loaded_aabb == get_world_bounds(chunk_map)
    IN IF outside_bounds(loaded_aabb, ray.origin) /\ ~aabb_intersects(loaded_aabb, ray)
       THEN <<>>
       ELSE voxel_line_traversal(aabb_intersection_at(loaded_aabb, ray),
                                 trace_end_of(loaded_aabb, ray), ray.direction)

\* The closure of raycast_fn called on the spot, as VoxelWorld::raycast does.
raycast_value(ray, filter) ==
    dda_walk(clone_write_buffer, dda_segment(ray), 1, filter, <<>>, <<>>)

\* VoxelWorld::raycast.
raycast(ray, filter) ==
    /\ LET cells == dda_segment(ray)
           walk == dda_walk(clone_write_buffer, cells, 1, filter, <<>>, <<>>)
       IN ret' = [op |-> "raycast", ray |-> ray, filter |-> filter, cells |-> cells,
                  result |-> walk.result, visited |-> walk.visited,
                  filtered |-> walk.filtered]
    /\ UNCHANGED <<voxel_write_buffer, modified_voxels, chunk_map, voxel_fn, since_fn>>
    /\ UNCHANGED <<lock, threads>>

(* ------------------------------------------------------------------ *)
(* The stepped raycast                                                 *)
(* ------------------------------------------------------------------ *)

\* VoxelWorldConfig::spawning_distance, in chunks: the stepped raycast marches
\* spawning_distance * CHUNK_SIZE voxels.
SpawningDistance == 3

\* `while adjacent_vox.is_solid() && steps < 3`.
MaxRefineSteps == 3

\* STEP_SIZE, in points.
StepSize == PointScale \div SamplesPerVoxel

\* `ray.origin + ray.direction * t`.
ray_point(ray, t) ==
    <<ray.origin[1] + ray.direction[1] * t, ray.origin[2] + ray.direction[2] * t,
      ray.origin[3] + ray.direction[3] * t>>

\* `(current / CHUNK_SIZE_F).floor().as_ivec3()`.
chunk_of_point(current) ==
    <<current[1] \div (PointScale * ChunkSize), current[2] \div (PointScale * ChunkSize),
      current[3] \div (PointScale * ChunkSize)>>

\* ChunkData::encloses_point: the point lies in the bounding box of the chunk.
encloses_point(chunk_pos, current) ==
    \A a \in 1..3 : /\ current[a] >= chunk_pos[a] * ChunkSize * PointScale
                    /\ current[a] <= (chunk_pos[a] + 1) * ChunkSize * PointScale

\* get_hit_normal: the normal of the face of the voxel's unit cube the ray meets
\* first; for a ray along an axis, the face turned against the ray.
get_hit_normal(vox_pos, ray) == Neg(ray.direction)

\* Mutant of refine_more: the hit moves on whatever the adjacent voxel is.
refine_more_blind(adjacent_vox, steps) == steps < MaxRefineSteps

\* `while adjacent_vox.is_solid() && steps < 3`.
refine_more(adjacent_vox, steps) == is_solid(adjacent_vox) /\ steps < MaxRefineSteps

\* The refinement of a hit: while the voxel adjacent along the normal is solid and
\* fewer than three steps were made, the hit moves to it.
RECURSIVE refine_hit(_, _, _, _, _, _)
refine_hit(write_buffer, ray, voxel_pos, voxel, normal, steps) ==
    LET adjacent_pos == Add(voxel_pos, normal)
        adjacent_vox == resolve(write_buffer, modified_voxels, chunk_map, adjacent_pos)
    IN IF refine_more(adjacent_vox, steps)
       THEN refine_hit(write_buffer, ray, adjacent_pos, adjacent_vox,
                       get_hit_normal(adjacent_pos, ray), steps + 1)
       ELSE [voxel_pos |-> voxel_pos, voxel |-> voxel, normal |-> normal,
             steps |-> steps, adjacent_vox |-> adjacent_vox]

\* What a stepped raycast did besides its result: the cells it resolved at a sample,
\* the cells of samples it skipped, the candidates the filter rejected, and for a hit
\* the sampled cell and the refinement made from it.
OldTrace(resolved, skipped, rejected) ==
    [resolved |-> resolved, skipped |-> skipped, rejected |-> rejected]

\* The marching loop of old_raycast_fn from distance t on (old_outer), and its inner
\* loop over the samples inside one non-empty chunk (old_inner).
\* Mutant of chunk_marched: the flag of an empty chunk is not looked at.
chunk_marched_if_present(chunks, chunk_pos) == chunk_pos \in DOMAIN chunks

\* `if let Some(chunk_data) = ChunkMap::get(..)` and `if !chunk_data.is_empty`: the
\* samples in the chunk are resolved, not skipped.
chunk_marched(chunks, chunk_pos) ==
    chunk_pos \in DOMAIN chunks /\ ~chunks[chunk_pos].is_empty

RECURSIVE old_outer(_, _, _, _)
RECURSIVE old_inner(_, _, _, _, _)

\* A march with more cells resolved, skipped and rejected before it.
Traced(march, resolved, skipped, rejected) ==
    [march EXCEPT !.trace = OldTrace(@.resolved \cup resolved, @.skipped \cup skipped,
                                     @.rejected \cup rejected)]

old_outer(write_buffer, ray, filter, t) ==
    IF ~(t < SpawningDistance * ChunkSize * PointScale)
    THEN [result |-> NoHit, trace |-> OldTrace({}, {}, {})]
    ELSE LET current == ray_point(ray, t)
             chunk_pos == chunk_of_point(current)
         IN IF chunk_marched(chunk_map, chunk_pos)
            THEN old_inner(write_buffer, ray, filter, t, chunk_pos)
            ELSE Traced(old_outer(write_buffer, ray, filter, t + StepSize),
                        {}, {floor_as_ivec3(current)}, {})

old_inner(write_buffer, ray, filter, t, chunk_pos) ==
    LET current == ray_point(ray, t)
        voxel_pos == floor_as_ivec3(current)
        voxel == resolve(write_buffer, modified_voxels, chunk_map, voxel_pos)
        refined == refine_hit(write_buffer, ray, voxel_pos, voxel,
                              get_hit_normal(voxel_pos, ray), 0)
    IN IF ~encloses_point(chunk_pos, current)
       THEN old_outer(write_buffer, ray, filter, t + StepSize)
       ELSE IF is_solid(voxel)
       THEN IF filter_call(filter, refined.voxel_pos, refined.voxel)
            THEN [result |-> VoxelRaycastResult(refined.voxel_pos,
                                                SomeNormal(refined.normal),
                                                refined.voxel),
                  trace |-> OldTrace({voxel_pos}, {}, {}),
                  sampled |-> voxel_pos, steps |-> refined.steps,
                  adjacent_vox |-> refined.adjacent_vox]
            ELSE Traced(old_outer(write_buffer, ray, filter, t + 2 * StepSize),
                        {voxel_pos}, {}, {<<refined.voxel_pos, refined.voxel>>})
       ELSE IF voxel = Unset
       THEN Traced(old_inner(write_buffer, ray, filter, t + StepSize, chunk_pos),
                   {voxel_pos}, {}, {})
       ELSE Traced(old_outer(write_buffer, ray, filter, t + 2 * StepSize),
                   {voxel_pos}, {}, {})

\* The closure of old_raycast_fn called on the spot, as VoxelWorld::old_raycast does.
old_raycast_value(ray, filter) ==
    old_outer(clone_write_buffer, ray, filter, 0)

\* VoxelWorld::old_raycast.
old_raycast(ray, filter) ==
    /\ LET march == old_raycast_value(ray, filter)
       IN ret' = [op |-> "old_raycast", ray |-> ray, filter |-> filter,
                  result |-> march.result, march |-> march]
    /\ UNCHANGED <<voxel_write_buffer, modified_voxels, chunk_map, voxel_fn, since_fn>>
    /\ UNCHANGED <<lock, threads>>

(* ------------------------------------------------------------------ *)
(* SpecRay: raycasts over worlds of chunks, overlay and pending edits  *)
(* ------------------------------------------------------------------ *)

\* The chunks the rays of this specification cross: the chunk that holds the depth
\* bound, the one below and the one above it; and the column of cells they run along.
RayBaseChunk == get_chunk_voxel_position(<<0, SearchFloor, 0>>).chunk_pos
RayChunks == {<<0, cy, 0>> : cy \in (RayBaseChunk[2] - 1)..(RayBaseChunk[2] + 1)}
RayLow == ChunkSize * (RayBaseChunk[2] - 1)
RayHigh == ChunkSize * (RayBaseChunk[2] + 2) - 1
RayColumn == {<<0, y, 0>> : y \in RayLow..RayHigh}

\* The rays: up and down the column from inside each of its cells, and from one cell
\* beyond each end.
RayOrigins == {<<0, y, 0>> : y \in (RayLow - 1)..(RayHigh + 1)}
RayDirections == {<<0, -1, 0>>, <<0, 1, 0>>}
Rays == {Ray3d(PointIn(o), d) : o \in RayOrigins, d \in RayDirections}

\* The writers of this specification: edits and one overlay entry in the middle chunk
\* of the column, terrain from three generators.
RayEditPositions == {<<0, y, 0>> : y \in (ChunkSize * RayBaseChunk[2])..(ChunkSize * RayBaseChunk[2] + 1)}
RayGenerators == {g \in Generators : g.sea_level \in {YLow, SearchFloor + 1, YHigh + 1}}

RaySetVoxel ==
    \E p \in RayEditPositions, v \in EditVoxels :
        voxel_write_buffer = <<>> /\ set_voxel(p, v)

RayOverlayWrite ==
    \E p \in FnOverlayPositions :
        modified_voxels = EmptyMap /\ overlay_write(p, Solid(3))

RayChunkLoad == \E c \in RayChunks, g \in RayGenerators : chunk_load(c, g)

RayChunkUnload == \E c \in RayChunks : chunk_unload(c)

\* The caller takes the result of one raycast before it casts the next.
RayResultTaken == ret.op \notin {"raycast", "old_raycast"}

Raycast == \E ray \in Rays, f \in Filters : RayResultTaken /\ raycast(ray, f)

OldRaycast == \E ray \in Rays, f \in Filters : RayResultTaken /\ old_raycast(ray, f)

NextRay ==
    \/ RaySetVoxel
    \/ RayOverlayWrite
    \/ RayChunkLoad
    \/ RayChunkUnload
    \/ Raycast
    \/ OldRaycast

SpecRay == Init /\ [][NextRay]_vars

(* ------------------------------------------------------------------ *)
(* The lock of the chunk map and the threads that take it              *)
(* ------------------------------------------------------------------ *)

\* Mutant of chunk_map_read: the map is read without regard to a writer.
chunk_map_unguarded(t) == TRUE

\* `chunk_map.read()` returns: no thread holds the write guard and, under a policy
\* that puts writers first, no writer is blocked in write().
chunk_map_read(t) ==
    /\ lock.writer = "none"
    /\ lock.writer_first => lock.waiting = {}

\* `chunk_map.write()` returns: no guard of either kind is held.
chunk_map_write(t) == lock.writer = "none" /\ lock.readers = <<>>

\* The lock with one more read guard of t, and with the guards of t dropped.
read_guard_taken(t) == [lock EXCEPT !.readers = Append(lock.readers, t)]
read_guards_dropped(t) ==
    [lock EXCEPT !.readers = SelectSeq(lock.readers, LAMBDA r : r # t)]

\* threads with the state of t set, and with t gone (its call returned).
thread_set(t, state) ==
    [u \in DOMAIN threads \cup {t} |-> IF u = t THEN state ELSE threads[u]]
thread_gone(t) == [u \in DOMAIN threads \ {t} |-> threads[u]]

\* Thread t is running and at pc.
at(t, pc) == t \in DOMAIN threads /\ threads[t].pc = pc

\* `chun_map_read.get(&chunk_pos).cloned()`: the chunk data of the map, if any.
chunk_opt_of(chunks, chunk_pos) ==
    IF chunk_pos \in DOMAIN chunks THEN [some |-> TRUE, data |-> chunks[chunk_pos]]
    ELSE [some |-> FALSE]

\* Whether the closure of get_voxel_fn reaches its chunk tier, and so the lock, at
\* position: no pending edit and no overlay entry answers before.
reaches_chunk_tier(write_buffer, position) ==
    find_first(write_buffer, position) = 0 /\ ~overlay_has(modified_voxels, position)

\* A thread calls get_voxel: the call is at its chunk tier, or returned already.
lock_get_voxel(t, position) ==
    /\ t \notin DOMAIN threads
    /\ threads' = thread_set(t,
          IF reaches_chunk_tier(clone_write_buffer, position)
          THEN [op |-> "get_voxel", pc |-> "chunk_tier", position |-> position]
          ELSE [op |-> "get_voxel", pc |-> "done", position |-> position,
                chunk_opt |-> [some |-> FALSE],
                voxel |-> get_voxel_value(position)])
    /\ UNCHANGED <<voxel_write_buffer, modified_voxels, chunk_map, voxel_fn, since_fn>>
    /\ UNCHANGED <<ret, lock>>

\* The chunk tier of the call: the read guard is taken, the owning chunk cloned out
\* of the map and the guard dropped; the voxel is read from the clone.
lock_chunk_tier(t) ==
    /\ at(t, "chunk_tier")
    /\ threads[t].op = "get_voxel"
    /\ chunk_map_read(t)
    /\ LET position == threads[t].position
           chunk_opt == chunk_opt_of(chunk_map,
                                     get_chunk_voxel_position(position).chunk_pos)
       IN threads' = thread_set(t,
            [op |-> "get_voxel", pc |-> "done", position |-> position,
             chunk_opt |-> chunk_opt, voxel |-> chunk_tier(chunk_map, position)])
    /\ UNCHANGED <<voxel_write_buffer, modified_voxels, chunk_map, voxel_fn, since_fn>>
    /\ UNCHANGED <<ret, lock>>

\* The call of a thread returns.
lock_return(t) ==
    /\ at(t, "done")
    /\ threads' = thread_gone(t)
    /\ lock' = read_guards_dropped(t)
    /\ UNCHANGED <<voxel_write_buffer, modified_voxels, chunk_map, voxel_fn, since_fn>>
    /\ UNCHANGED ret

\* The thread of the chunk loader.
LoaderThread == "loader"

\* Chunk data the loader has written in part: the lowest layer of the chunk only.
partial_chunk(generator, chunk_pos) ==
    LET whole == generate_chunk(generator, chunk_pos)
    IN [voxels |-> [l \in LocalPositions |->
                      IF l[2] = 0 THEN whole.voxels[l] ELSE Unset],
        is_empty |-> whole.is_empty]

\* The loader asks for the write guard, to load or to unload a chunk.
loader_request(op, chunk_pos, generator) ==
    /\ LoaderThread \notin DOMAIN threads
    /\ IF op = "load" THEN chunk_pos \notin DOMAIN chunk_map
       ELSE chunk_pos \in DOMAIN chunk_map
    /\ threads' = thread_set(LoaderThread,
          [op |-> op, pc |-> "write", chunk_pos |-> chunk_pos, generator |-> generator])
    /\ lock' = [lock EXCEPT !.waiting = @ \cup {LoaderThread}]
    /\ UNCHANGED <<voxel_write_buffer, modified_voxels, chunk_map, voxel_fn, since_fn>>
    /\ UNCHANGED ret

\* The loader gets the write guard and starts on the map: an unload removes the
\* chunk, a load has written the chunk in part.
loader_write ==
    /\ at(LoaderThread, "write")
    /\ chunk_map_write(LoaderThread)
    /\ lock' = [lock EXCEPT !.writer = LoaderThread, !.waiting = @ \ {LoaderThread}]
    /\ LET w == threads[LoaderThread]
       IN /\ chunk_map' =
                IF w.op = "load"
                THEN [c \in DOMAIN chunk_map \cup {w.chunk_pos} |->
                        IF c = w.chunk_pos
                        THEN partial_chunk(w.generator, w.chunk_pos)
                        ELSE chunk_map[c]]
                ELSE [c \in DOMAIN chunk_map \ {w.chunk_pos} |-> chunk_map[c]]
          /\ threads' = thread_set(LoaderThread, [w EXCEPT !.pc = "written"])
          /\ since_fn' = Changed("chunk", w.chunk_pos)
    /\ UNCHANGED <<voxel_write_buffer, modified_voxels, voxel_fn, ret>>

\* The loader completes the chunk it loads and drops the write guard.
loader_release ==
    /\ at(LoaderThread, "written")
    /\ lock' = [lock EXCEPT !.writer = "none"]
    /\ LET w == threads[LoaderThread]
       IN chunk_map' =
            IF w.op = "load"
            THEN [chunk_map EXCEPT ![w.chunk_pos] =
                                      generate_chunk(w.generator, w.chunk_pos)]
            ELSE chunk_map
    /\ threads' = thread_gone(LoaderThread)
    /\ UNCHANGED <<voxel_write_buffer, modified_voxels, voxel_fn, since_fn, ret>>

\* A thread calls raycast: raycast_fn makes the resolver, with its clone of the
\* write buffer, and the closure is entered.
lock_raycast(t, ray, filter) ==
    /\ t \notin DOMAIN threads
    /\ threads' = thread_set(t,
          [op |-> "raycast", pc |-> "bounds", ray |-> ray, filter |-> filter,
           write_buffer |-> clone_write_buffer])
    /\ UNCHANGED <<voxel_write_buffer, modified_voxels, chunk_map, voxel_fn, since_fn>>
    /\ UNCHANGED <<ret, lock>>

\* Mutant of bounds_guard_dropped: the read guard taken for the world bounds is kept
\* for the traversal.
bounds_guard_kept(t) == read_guard_taken(t)

\* `get_world_bounds(&chunk_map.read().unwrap())`: the guard is a temporary of the
\* statement, dropped at its end.
bounds_guard_dropped(t) == lock

\* The closure of raycast_fn reads the world bounds under the read guard and fixes
\* the segment it traverses.
lock_raycast_bounds(t) ==
    /\ at(t, "bounds")
    /\ chunk_map_read(t)
    /\ lock' = bounds_guard_dropped(t)
    /\ LET s == threads[t]
           cells == dda_segment(s.ray)
       IN threads' = thread_set(t,
            IF cells = <<>>
            THEN [op |-> "raycast", pc |-> "done", ray |-> s.ray, filter |-> s.filter,
                  cells |-> cells, seen |-> <<>>, result |-> NoHit]
            ELSE [op |-> "raycast", pc |-> "cell", ray |-> s.ray, filter |-> s.filter,
                  write_buffer |-> s.write_buffer, cells |-> cells, seen |-> <<>>])
    /\ UNCHANGED <<voxel_write_buffer, modified_voxels, chunk_map, voxel_fn, since_fn>>
    /\ UNCHANGED ret

\* The visitor of raycast_fn at the next cell of the segment: the cell is resolved,
\* under the read guard when the resolver reaches its chunk tier, and the traversal
\* stops or goes on.
lock_raycast_cell(t) ==
    /\ at(t, "cell")
    /\ LET s == threads[t]
           cell == s.cells[Len(s.seen) + 1]
           voxel == resolve(s.write_buffer, modified_voxels, chunk_map, cell.coords)
           accepted == ~is_unset(voxel) /\ filter_call(s.filter, cell.coords, voxel)
           seen == Append(s.seen,
                      [coords |-> cell.coords, voxel |-> voxel,
                       loaded |-> get_chunk_voxel_position(cell.coords).chunk_pos
                                     \in DOMAIN chunk_map])
       IN /\ reaches_chunk_tier(s.write_buffer, cell.coords) => chunk_map_read(t)
          /\ threads' = thread_set(t,
               IF visit_stops(voxel, accepted)
               THEN [op |-> "raycast", pc |-> "done", ray |-> s.ray,
                     filter |-> s.filter, cells |-> s.cells, seen |-> seen,
                     result |-> VoxelRaycastResult(cell.coords,
                                                   face_normal(cell.face), voxel)]
               ELSE IF Len(seen) = Len(s.cells)
               THEN [op |-> "raycast", pc |-> "done", ray |-> s.ray,
                     filter |-> s.filter, cells |-> s.cells, seen |-> seen,
                     result |-> NoHit]
               ELSE [s EXCEPT !.seen = seen])
    /\ UNCHANGED <<voxel_write_buffer, modified_voxels, chunk_map, voxel_fn, since_fn>>
    /\ UNCHANGED <<ret, lock>>

\* A thread calls old_raycast: old_raycast_fn makes the resolver and the closure is
\* entered.
lock_old_raycast(t, ray, filter) ==
    /\ t \notin DOMAIN threads
    /\ threads' = thread_set(t,
          [op |-> "old_raycast", pc |-> "outer_read", ray |-> ray, filter |-> filter,
           write_buffer |-> clone_write_buffer])
    /\ UNCHANGED <<voxel_write_buffer, modified_voxels, chunk_map, voxel_fn, since_fn>>
    /\ UNCHANGED <<ret, lock>>

\* `let chunk_map_read_lock = chunk_map.read().unwrap()`: the closure of
\* old_raycast_fn takes a read guard that it holds until it returns.
lock_old_outer_read(t) ==
    /\ at(t, "outer_read")
    /\ chunk_map_read(t)
    /\ lock' = read_guard_taken(t)
    /\ threads' = thread_set(t, [threads[t] EXCEPT !.pc = "march"])
    /\ UNCHANGED <<voxel_write_buffer, modified_voxels, chunk_map, voxel_fn, since_fn>>
    /\ UNCHANGED ret

\* The march of old_raycast_fn under its read guard, during which the map cannot
\* change. Every voxel it resolves through get_voxel down to the chunk tier takes
\* the read guard once more, on the same lock.
lock_old_march(t) ==
    /\ at(t, "march")
    /\ LET s == threads[t]
           march == old_outer(s.write_buffer, s.ray, s.filter, 0)
       IN /\ (\E p \in march.trace.resolved : reaches_chunk_tier(s.write_buffer, p))
                => chunk_map_read(t)
          /\ threads' = thread_set(t,
               [op |-> "old_raycast", pc |-> "done", ray |-> s.ray,
                filter |-> s.filter, result |-> march.result])
    /\ UNCHANGED <<voxel_write_buffer, modified_voxels, chunk_map, voxel_fn, since_fn>>
    /\ UNCHANGED <<ret, lock>>

(* ------------------------------------------------------------------ *)
(* SpecLock: reader threads and the chunk loader on the chunk map      *)
(* ------------------------------------------------------------------ *)

\* The reader threads, the chunks the loader loads and unloads (the chunk that holds
\* the depth bound and the one above it), its generator, and what the readers ask.
ReaderThreads == {"r1", "r2"}
LockChunks == {RayBaseChunk, Add(RayBaseChunk, IVec3_Y)}
LockGenerators == {g \in Generators : g.sea_level = SearchFloor + 1}
LockPositions == {<<0, SearchFloor, 0>>, <<0, SearchFloor + 1, 0>>}
LockRays == {Ray3d(PointIn(<<0, ChunkSize * (RayBaseChunk[2] + 2), 0>>), <<0, -1, 0>>)}
LockFilters == {"accept_all"}

\* The lock is free, under either policy.
InitLock ==
    /\ voxel_write_buffer = <<>>
    /\ modified_voxels = EmptyMap
    /\ chunk_map = EmptyMap
    /\ voxel_fn = NoFn
    /\ since_fn = NoChange
    /\ ret = NoRet
    /\ lock \in {[Unlocked EXCEPT !.writer_first = b] : b \in BOOLEAN}
    /\ threads = NoThreads

LockGetVoxel == \E t \in ReaderThreads, p \in LockPositions : lock_get_voxel(t, p)

LockChunkTier == \E t \in ReaderThreads : lock_chunk_tier(t)

LockRaycast ==
    \E t \in ReaderThreads, ray \in LockRays, f \in LockFilters : lock_raycast(t, ray, f)

LockRaycastBounds == \E t \in ReaderThreads : lock_raycast_bounds(t)

LockRaycastCell == \E t \in ReaderThreads : lock_raycast_cell(t)

LockOldRaycast ==
    \E t \in ReaderThreads, ray \in LockRays, f \in LockFilters :
        lock_old_raycast(t, ray, f)

LockOldOuterRead == \E t \in ReaderThreads : lock_old_outer_read(t)

LockOldMarch == \E t \in ReaderThreads : lock_old_march(t)

LockReturn == \E t \in ReaderThreads : lock_return(t)

LoaderRequest ==
    \E op \in {"load", "unload"}, c \in LockChunks, g \in LockGenerators :
        loader_request(op, c, g)

LoaderWrite == loader_write

LoaderRelease == loader_release

NextLock ==
    \/ LockGetVoxel
    \/ LockChunkTier
    \/ LockRaycast
    \/ LockRaycastBounds
    \/ LockRaycastCell
    \/ LockOldRaycast
    \/ LockOldOuterRead
    \/ LockOldMarch
    \/ LockReturn
    \/ LoaderRequest
    \/ LoaderWrite
    \/ LoaderRelease

SpecLock == InitLock /\ [][NextLock]_vars

(* ------------------------------------------------------------------ *)
(* Properties of the resolver (Spec)                                   *)
(* ------------------------------------------------------------------ *)

\* The indexes of the entries a buffer holds for a position.
EntriesFor(write_buffer, p) ==
    {i \in 1..Len(write_buffer) : write_buffer[i][1] = p}

\* C1: get_voxel at p returns a write buffer value for p when the buffer holds an
\* entry for p; otherwise the overlay value when the overlay holds p; otherwise the
\* local voxel of the owning chunk when that chunk is loaded; otherwise Unset.
C1_TierPrecedence ==
    ret.op = "get_voxel" =>
        LET p == ret.position
            cv == get_chunk_voxel_position(p)
            entries == EntriesFor(voxel_write_buffer, p)
        IN IF entries # {}
           THEN ret.voxel \in {voxel_write_buffer[i][2] : i \in entries}
           ELSE IF p \in DOMAIN modified_voxels
           THEN ret.voxel = modified_voxels[p]
           ELSE IF cv.chunk_pos \in DOMAIN chunk_map
           THEN ret.voxel = chunk_map[cv.chunk_pos].voxels[cv.vox_pos]
           ELSE ret.voxel = Unset

\* A read of a position held by all three tiers with three different values, which
\* returned the buffer's.
C1_Witness ==
    /\ ret.op = "get_voxel"
    /\ EntriesFor(voxel_write_buffer, ret.position) # {}
    /\ ret.position \in DOMAIN modified_voxels
    /\ get_chunk_voxel_position(ret.position).chunk_pos \in DOMAIN chunk_map
    /\ ret.voxel = Solid(2)
    /\ modified_voxels[ret.position] = Solid(3)
    /\ chunk_tier(chunk_map, ret.position) = Solid(1)

\* C2: when the write buffer holds several entries for p, get_voxel at p returns the
\* value of the earliest of them in buffer order.
C2_FirstMatchWins ==
    ret.op = "get_voxel" =>
        \A i \in EntriesFor(voxel_write_buffer, ret.position) :
            (\A j \in EntriesFor(voxel_write_buffer, ret.position) : i <= j)
                => ret.voxel = voxel_write_buffer[i][2]

\* A read of a position with two entries of different values, which returned the
\* earlier one.
C2_Witness ==
    /\ ret.op = "get_voxel"
    /\ \E i, j \in EntriesFor(voxel_write_buffer, ret.position) :
          /\ i < j
          /\ voxel_write_buffer[i][2] # voxel_write_buffer[j][2]
          /\ ret.voxel = voxel_write_buffer[i][2]

\* The last entry of the write buffer is for p and no earlier entry is.
FreshLastEntry(p) ==
    /\ voxel_write_buffer # <<>>
    /\ EntriesFor(voxel_write_buffer, p) = {Len(voxel_write_buffer)}

\* C3: a get_voxel(p) that immediately follows a set_voxel(p, v) whose p had no
\* earlier entry in the write buffer returns v, whatever the overlay and the chunk
\* map hold for p.
C3_ReadAfterSetVoxel ==
    [][(/\ ret.op = "set_voxel"
        /\ ret'.op = "get_voxel"
        /\ FreshLastEntry(ret'.position))
       => ret'.voxel = voxel_write_buffer[Len(voxel_write_buffer)][2]]_vars

\* A read that returned the one buffered edit of a position whose chunk is not loaded
\* and whose overlay entry holds another value.
C3_Witness ==
    /\ ret.op = "get_voxel"
    /\ FreshLastEntry(ret.position)
    /\ ret.voxel = voxel_write_buffer[Len(voxel_write_buffer)][2]
    /\ ret.voxel = Solid(2)
    /\ get_chunk_voxel_position(ret.position).chunk_pos \notin DOMAIN chunk_map
    /\ ret.position \in DOMAIN modified_voxels
    /\ modified_voxels[ret.position] # ret.voxel

\* C7: while the overlay holds an entry for p and the write buffer holds none,
\* get_voxel at p yields the overlay value before and after every load and unload of
\* a chunk, whatever the loaded data is.
C7_OverlayOutlivesChunks ==
    [][\A p \in EditPositions :
          (/\ p \in DOMAIN modified_voxels
           /\ EntriesFor(voxel_write_buffer, p) = {}
           /\ chunk_map' # chunk_map)
          => /\ get_voxel_value(p) = modified_voxels[p]
             /\ get_voxel_value(p)' = modified_voxels[p]]_vars

\* A read that returned the overlay value of a position whose loaded chunk holds
\* another value there.
C7_Witness ==
    /\ ret.op = "get_voxel"
    /\ ret.position \in DOMAIN modified_voxels
    /\ EntriesFor(voxel_write_buffer, ret.position) = {}
    /\ get_chunk_voxel_position(ret.position).chunk_pos \in DOMAIN chunk_map
    /\ chunk_tier(chunk_map, ret.position) = Solid(1)
    /\ ret.voxel = Air
    /\ modified_voxels[ret.position] = Air

(* ------------------------------------------------------------------ *)
(* Properties of a kept closure (SpecFn)                               *)
(* ------------------------------------------------------------------ *)

\* The closure's buffer is the facade's buffer as it was when the closure was made:
\* set_voxel only appends, so it is the prefix of that length.
ClosureBufferIsSnapshot ==
    voxel_fn.made =>
        /\ Len(voxel_fn.write_buffer) <= Len(voxel_write_buffer)
        /\ voxel_fn.write_buffer =
             SubSeq(voxel_write_buffer, 1, Len(voxel_fn.write_buffer))

Unshadowed(p) == EntriesFor(voxel_fn.write_buffer, p) = {}

\* C5: a call of the kept closure at a position its buffer does not shadow observes
\* the overlay and the chunk map as they are at the call: after an overlay write or
\* clear at p it returns the overlay's present value for p (the chunk tier when the
\* entry is gone), and after a load or unload of the owning chunk, the overlay not
\* holding p, the loaded chunk's voxel or Unset.
C5_ClosureAliasesMaps ==
    (ret.op = "voxel_fn" /\ Unshadowed(ret.position)) =>
        LET p == ret.position
            cv == get_chunk_voxel_position(p)
        IN /\ (since_fn.kind = "overlay" /\ since_fn.target = p)
              => ret.voxel = IF p \in DOMAIN modified_voxels
                             THEN modified_voxels[p]
                             ELSE chunk_tier(chunk_map, p)
           /\ (/\ since_fn.kind = "chunk"
               /\ since_fn.target = cv.chunk_pos
               /\ p \notin DOMAIN modified_voxels)
              => ret.voxel = IF cv.chunk_pos \in DOMAIN chunk_map
                             THEN chunk_map[cv.chunk_pos].voxels[cv.vox_pos]
                             ELSE Unset

\* A call of the closure that returned the solid voxel of a chunk loaded after the
\* closure was made.
C5_Witness ==
    /\ ret.op = "voxel_fn"
    /\ Unshadowed(ret.position)
    /\ ret.position \notin DOMAIN modified_voxels
    /\ since_fn.kind = "chunk"
    /\ since_fn.target = get_chunk_voxel_position(ret.position).chunk_pos
    /\ since_fn.target \in DOMAIN chunk_map
    /\ ret.voxel = Solid(1)

\* C6: a call of get_voxel or of the kept closure leaves the write buffer, the
\* overlay and the chunk map as they were, and a call that follows a call of the same
\* resolver at the same position returns the same value.
C6_CallsReadOnly ==
    [][ret'.op \in {"get_voxel", "voxel_fn"}
       => /\ voxel_write_buffer' = voxel_write_buffer
          /\ modified_voxels' = modified_voxels
          /\ chunk_map' = chunk_map
          /\ (ret.op = ret'.op /\ ret.position = ret'.position)
             => ret'.voxel = ret.voxel]_vars

\* A call of the closure that returned a buffered edit while the facade's buffer, the
\* overlay and the chunk map all hold something.
C6_Witness ==
    /\ ret.op = "voxel_fn"
    /\ ret.voxel = Solid(2)
    /\ EntriesFor(voxel_fn.write_buffer, ret.position) # {}
    /\ Len(voxel_write_buffer) = MaxBuffer
    /\ DOMAIN modified_voxels # {}
    /\ DOMAIN chunk_map # {}

(* ------------------------------------------------------------------ *)
(* Properties of the surface search (SpecSurface)                      *)
(* ------------------------------------------------------------------ *)

\* The surface test on the resolved world: solid, with Unset or Air right above.
Surface(p) ==
    /\ is_solid(get_voxel_value(p))
    /\ get_voxel_value(Add(p, IVec3_Y)) \in {Unset, Air}

Max(a, b) == IF a >= b THEN a ELSE b
Min(a, b) == IF a <= b THEN a ELSE b

\* The search ended after at most one test of is_surface per level from the start
\* down to the depth bound.
SearchIsBounded ==
    ret.result.iterations <= Max(ret.position[2] - SearchFloor, 0) + 1

\* Every level of the start's column from the start down to one below the depth
\* bound is Air.
AirColumn ==
    \A y \in (SearchFloor - 1)..ret.position[2] :
        get_voxel_value(<<ret.position[1], y, ret.position[3]>>) = Air

\* C8 as claimed: the search ends, resolves no voxel at a y below -256, and finds
\* nothing in a column that is Air down past the depth bound.
C8_NeverBelowDepthBound ==
    ret.op = "get_closest_surface_voxel" =>
        /\ SearchIsBounded
        /\ \A q \in ret.result.resolved : q[2] >= SearchFloor
        /\ AirColumn => ~ret.result.found

\* C8 as amended: the search ends, resolves no voxel lower than the lower of the start
\* and y = -256 (so none below -256 from a start at or above it; the start itself is
\* resolved before the bound is tested), and finds nothing in a column that is Air
\* down past the depth bound.
C8_BoundedSearch ==
    ret.op = "get_closest_surface_voxel" =>
        /\ SearchIsBounded
        /\ \A q \in ret.result.resolved : q[2] >= Min(ret.position[2], SearchFloor)
        /\ AirColumn => ~ret.result.found

\* A search from above the depth bound in a column of Air, which tested every level
\* down to -256 and found nothing.
C8_Witness ==
    /\ ret.op = "get_closest_surface_voxel"
    /\ ret.position[2] >= SearchFloor + 2
    /\ AirColumn
    /\ ~ret.result.found
    /\ ret.result.iterations = ret.position[2] - SearchFloor + 1
    /\ <<ret.position[1], SearchFloor, ret.position[3]>> \in ret.result.resolved

\* C9: a found (q, v) is in the start's column at or below the start, v is the
\* resolver's value at q and solid, the voxel above q is Unset or Air, and no level
\* between q (exclusive) and the start (inclusive) passes the surface test.
C9_FirstSurfaceBelow ==
    (ret.op = "get_closest_surface_voxel" /\ ret.result.found) =>
        LET q == ret.result.hit_position
            v == ret.result.hit_voxel
        IN /\ q[1] = ret.position[1]
           /\ q[3] = ret.position[3]
           /\ q[2] <= ret.position[2]
           /\ v = get_voxel_value(q)
           /\ is_solid(v)
           /\ get_voxel_value(Add(q, IVec3_Y)) \in {Unset, Air}
           /\ \A y \in (q[2] + 1)..ret.position[2] :
                 ~Surface(<<ret.position[1], y, ret.position[3]>>)

\* A search that found a surface two or more levels below its start, in a column
\* with another surface further down.
C9_Witness ==
    /\ ret.op = "get_closest_surface_voxel"
    /\ ret.result.found
    /\ ret.result.hit_position[2] <= ret.position[2] - 2
    /\ \E y \in YLow..(ret.result.hit_position[2] - 1) :
          Surface(<<ret.position[1], y, ret.position[3]>>)

RandomStarted == RandomThread \in DOMAIN threads
Random == threads[RandomThread]

\* The counters of a random search: at most MaxTries attempts, no more calls of
\* get_closest_surface_voxel than attempts; while it runs the cap is not reached and
\* every call failed; a found result is that of the last call, the only one to
\* succeed; nothing is returned only when the cap is reached and every call failed.
RandomSearchBounded ==
    RandomStarted =>
        /\ Random.tries <= MaxTries
        /\ Random.calls <= Random.tries
        /\ Random.failed <= Random.calls
        /\ Random.pc = "loop" =>
              /\ Random.tries < MaxTries
              /\ ~Random.result.found
              /\ Random.failed = Random.calls
        /\ (Random.pc = "done" /\ Random.result.found) =>
              /\ Random.failed = Random.calls - 1
              /\ closest_surface_voxel(Random.result.start).found
              /\ closest_surface_voxel(Random.result.start).hit_position =
                    Random.result.hit_position
              /\ closest_surface_voxel(Random.result.start).hit_voxel =
                    Random.result.hit_voxel
        /\ (Random.pc = "done" /\ ~Random.result.found) =>
              /\ Random.tries = MaxTries
              /\ Random.failed = Random.calls

\* C11: get_random_surface_voxel terminates: every iteration, rejected sample or not,
\* counts one attempt toward the cap of 100; it calls get_closest_surface_voxel at most
\* 100 times, returns the first result found, and returns nothing when every attempt
\* was rejected or failed.
C11_RandomSearchTerminates ==
    [][/\ RandomSearchBounded'
       /\ (RandomStarted /\ Random.pc = "loop") =>
             /\ Random'.tries = Random.tries + 1
             /\ Random'.calls \in {Random.calls, Random.calls + 1}
             /\ Random'.result.found => Random'.pc = "done"]_vars

\* A search that returned a surface voxel after rejected samples and failed calls.
C11_Witness ==
    /\ RandomStarted
    /\ Random.pc = "done"
    /\ Random.result.found
    /\ Random.failed >= 2
    /\ Random.calls < Random.tries - 1
    /\ Random.tries = MaxTries

(* ------------------------------------------------------------------ *)
(* Properties of the raycasts (SpecRay)                                *)
(* ------------------------------------------------------------------ *)

\* The cells of a traversal that hold a solid voxel the filter accepts.
AcceptedSolid(cells, filter) ==
    {i \in 1..Len(cells) :
        /\ is_solid(get_voxel_value(cells[i].coords))
        /\ filter_call(filter, cells[i].coords, get_voxel_value(cells[i].coords))}

\* C12: the DDA raycast returns the earliest cell of the traversal whose voxel is
\* solid and accepted by the filter, with the cell's coordinate as position, the face
\* the segment entered it through as normal and the voxel; it returns no hit exactly
\* when no cell of the traversal is both.
C12_DdaFirstAcceptedSolid ==
    ret.op = "raycast" =>
        LET hits == AcceptedSolid(ret.cells, ret.filter)
        IN IF hits = {} THEN ret.result = NoHit
           ELSE LET i == MinOf(hits)
                IN ret.result =
                     VoxelRaycastResult(ret.cells[i].coords,
                                        face_normal(ret.cells[i].face),
                                        get_voxel_value(ret.cells[i].coords))

\* A DDA raycast that hit a cell entered through a face, past an accepted Air cell
\* and a solid cell the filter rejected.
C12_Witness ==
    /\ ret.op = "raycast"
    /\ ret.result.hit
    /\ ret.result.normal = SomeNormal(Neg(ret.ray.direction))
    /\ \E i, j \in 1..Len(ret.cells) :
          /\ ret.cells[i].coords # ret.result.position
          /\ ret.cells[j].coords # ret.result.position
          /\ is_solid(get_voxel_value(ret.cells[i].coords))
          /\ <<ret.cells[i].coords, get_voxel_value(ret.cells[i].coords)>>
                \in {ret.filtered[k] : k \in 1..Len(ret.filtered)}
          /\ <<ret.cells[j].coords, Air>> \in {ret.filtered[k] : k \in 1..Len(ret.filtered)}

\* C13: in an unchanged world, for every ray along the column cast from a cell that is
\* not solid and every filter, the stepped raycast and the DDA raycast both report no
\* hit or both report a hit at the same voxel position.
C13_RaycastsAgree ==
    (/\ ret.op = "old_raycast"
     /\ ~is_solid(get_voxel_value(floor_as_ivec3(ret.ray.origin)))) =>
        LET dda == raycast_value(ret.ray, ret.filter)
        IN /\ dda.result.hit = ret.result.hit
           /\ ret.result.hit => dda.result.position = ret.result.position

(* ------------------------------------------------------------------ *)
(* Properties of the threads on the chunk map (SpecLock)               *)
(* ------------------------------------------------------------------ *)

\* Thread t is in a call that waits for the lock: for the read guard at the chunk
\* tier of a resolver call, at the world bounds or at the start of a march, or for the
\* write guard.
Blocked(t) ==
    LET s == threads[t]
    IN CASE s.pc \in {"chunk_tier", "bounds", "outer_read"} -> ~chunk_map_read(t)
         [] s.pc = "cell" ->
              /\ reaches_chunk_tier(s.write_buffer, s.cells[Len(s.seen) + 1].coords)
              /\ ~chunk_map_read(t)
         [] s.pc = "march" ->
              /\ \E p \in old_outer(s.write_buffer, s.ray, s.filter, 0).trace.resolved :
                    reaches_chunk_tier(s.write_buffer, p)
              /\ ~chunk_map_read(t)
         [] s.pc = "write" -> ~chunk_map_write(t)
         [] OTHER -> FALSE

\* C14: with readers in get_voxel, raycast and old_raycast and the loader taking the
\* write guard, no state is reached in which calls are in progress and every one of
\* them waits for the lock (no thread asks for the write guard while it reads).
C14_NoDeadlock ==
    ~(/\ DOMAIN threads # {}
      /\ \A t \in DOMAIN threads : Blocked(t))

\* Chunk data is whole: it is what a generator of the loader yields for the chunk.
WholeChunk(chunk_pos, data) ==
    \E g \in LockGenerators : data = generate_chunk(g, chunk_pos)

\* C15: in every interleaving with the loader, the chunk tier of a resolver call sees
\* for the owning chunk either whole chunk data or none, and returns the voxel of the
\* whole chunk or Unset; so does every cell a raycast resolved.
C15_ChunkTierSeesWholeChunks ==
    \A t \in DOMAIN threads :
        /\ (threads[t].op = "get_voxel" /\ threads[t].pc = "done") =>
              LET cv == get_chunk_voxel_position(threads[t].position)
                  seen == threads[t].chunk_opt
              IN IF seen.some
                 THEN /\ WholeChunk(cv.chunk_pos, seen.data)
                      /\ threads[t].voxel = chunk_get_voxel(seen.data, cv.vox_pos)
                 ELSE threads[t].voxel = Unset
        /\ (threads[t].op = "raycast" /\ threads[t].pc \in {"cell", "done"}) =>
              \A i \in 1..Len(threads[t].seen) :
                 LET cell == threads[t].seen[i]
                 IN IF cell.loaded
                    THEN \E g \in LockGenerators :
                            cell.voxel = generate_voxel(g, cell.coords)
                    ELSE cell.voxel = Unset

\* A resolver call that returned a voxel of a loaded chunk, while another call waits
\* at its chunk tier for the loader, which holds the write guard over a chunk written
\* in part.
C15_Witness ==
    /\ at(LoaderThread, "written")
    /\ threads[LoaderThread].op = "load"
    /\ ~WholeChunk(threads[LoaderThread].chunk_pos,
                   chunk_map[threads[LoaderThread].chunk_pos])
    /\ \E t, u \in ReaderThreads :
          /\ at(t, "done")
          /\ threads[t].op = "get_voxel"
          /\ threads[t].chunk_opt.some
          /\ is_solid(threads[t].voxel)
          /\ at(u, "chunk_tier")
          /\ get_chunk_voxel_position(threads[u].position).chunk_pos =
                threads[LoaderThread].chunk_pos

(* ------------------------------------------------------------------ *)
(* More properties of the raycasts (SpecRay)                           *)
(* ------------------------------------------------------------------ *)

SolidBelow(ray) ==
    {p \in RayOrigins : /\ p[2] < floor_as_ivec3(ray.origin)[2]
                        /\ is_solid(get_voxel_value(p))}
SolidBelowInBounds(ray) ==
    {p \in SolidBelow(ray) : p[2] >= get_world_bounds(chunk_map).min[2]}

\* The highest of a non-empty set of positions of one column.
Highest(S) == CHOOSE p \in S : \A q \in S : p[2] >= q[2]

\* A DDA raycast straight down with the always-accept filter, from an origin inside
\* the loaded bounds in a cell that is not solid.
DownwardRaycast ==
    /\ ret.op = "raycast"
    /\ ret.filter = "accept_all"
    /\ ret.ray.direction = <<0, -1, 0>>
    /\ ~outside_bounds(get_world_bounds(chunk_map), ret.ray.origin)
    /\ ~is_solid(get_voxel_value(floor_as_ivec3(ret.ray.origin)))

\* C17 as claimed: such a raycast returns the highest solid voxel of the column below
\* the origin, with normal (0, 1, 0) and that voxel's value.
C17_HitsHighestSolidBelow ==
    (DownwardRaycast /\ SolidBelow(ret.ray) # {}) =>
        ret.result = VoxelRaycastResult(Highest(SolidBelow(ret.ray)),
                                        SomeNormal(<<0, 1, 0>>),
                                        get_voxel_value(Highest(SolidBelow(ret.ray))))

\* C17 as amended: such a raycast returns the highest solid voxel of the column below
\* the origin that lies inside the bounds of the loaded chunks, with normal
\* (0, 1, 0) and that voxel's value, and no hit when there is none.
C17_HitsHighestSolidInBounds ==
    DownwardRaycast =>
        IF SolidBelowInBounds(ret.ray) = {} THEN ret.result = NoHit
        ELSE ret.result =
               VoxelRaycastResult(Highest(SolidBelowInBounds(ret.ray)),
                                  SomeNormal(<<0, 1, 0>>),
                                  get_voxel_value(Highest(SolidBelowInBounds(ret.ray))))

\* A downward raycast that hit a solid voxel two or more cells below its origin, in a
\* column with another solid voxel further down.
C17_Witness ==
    /\ DownwardRaycast
    /\ ret.result.hit
    /\ ret.result.position[2] <= floor_as_ivec3(ret.ray.origin)[2] - 2
    /\ \E p \in SolidBelowInBounds(ret.ray) : p[2] < ret.result.position[2]

(* ------------------------------------------------------------------ *)
(* More properties of the resolver (Spec)                              *)
(* ------------------------------------------------------------------ *)

U32_BITS == 32

X_BITS == 13

Y_BITS == 13

Z_BITS == 6

BitIndex == 0..(U32_BITS - 1)

\* 1 << n, for n below the sign bit of an i32.
pow2(n) == 2 ^ n

X_BIAS == pow2(X_BITS - 1)

Y_BIAS == pow2(Y_BITS - 1)

Z_BIAS == pow2(Z_BITS - 1)

X_SHIFT == 0

Y_SHIFT == X_BITS

Z_SHIFT == X_BITS + Y_BITS

\* Bit i of a natural number below 2^31.
bit_of_nat(v, i) == IF i >= U32_BITS - 1 THEN 0 ELSE (v \div pow2(i)) % 2

\* `v as u32` for an i32 v: the two's-complement bit pattern, bit 0 first.
as_u32(v) ==
    [i \in BitIndex |-> IF v >= 0 THEN bit_of_nat(v, i) ELSE 1 - bit_of_nat(-v - 1, i)]

\* `w << n` on a u32 with n < 32: the bits shifted past the top are discarded.
shl(w, n) == [i \in BitIndex |-> IF i >= n THEN w[i - n] ELSE 0]

\* `a | b` on u32.
bit_or(a, b) == [i \in BitIndex |-> IF a[i] = 1 \/ b[i] = 1 THEN 1 ELSE 0]

\* Mutant of from_coords: the axes are packed without their bias.
from_coords_unbiased(x, y, z) ==
    bit_or(shl(as_u32(z), Z_SHIFT), bit_or(shl(as_u32(y), Y_SHIFT), shl(as_u32(x), X_SHIFT)))

\* Coord3d::from_coords.
from_coords(x, y, z) ==
    LET xw == shl(as_u32(x + X_BIAS), X_SHIFT)
        yw == shl(as_u32(y + Y_BIAS), Y_SHIFT)
        zw == shl(as_u32(z + Z_BIAS), Z_SHIFT)
    IN  bit_or(zw, bit_or(yw, xw))

(* ------------------------------------------------------------------ *)
(* Specification of the key encoding (SpecCoord)                       *)
(* ------------------------------------------------------------------ *)

\* Values of one axis: the ends of a 13-bit and of a 6-bit signed field, their
\* neighbours outside the 6-bit field, and the values around zero.
AxisSamples == {-X_BIAS, -Z_BIAS - 1, -Z_BIAS, -1, 0, Z_BIAS - 1, Z_BIAS, X_BIAS - 1}

\* The coordinates handed to from_coords.
Coords == AxisSamples \X AxisSamples \X AxisSamples

InitCoord ==
    /\ voxel_write_buffer = <<>>
    /\ modified_voxels = EmptyMap
    /\ chunk_map = EmptyMap
    /\ voxel_fn = NoFn
    /\ since_fn = NoChange
    /\ \E c \in Coords : ret = [op |-> "coords", coords |-> c]
    /\ lock = Unlocked
    /\ threads = NoThreads

\* from_coords of the coordinate drawn first and of a second one; both keys are kept.
FromCoords ==
    /\ ret.op = "coords"
    /\ \E c \in Coords :
          ret' = [op |-> "from_coords",
                  coords |-> c,
                  key |-> from_coords(c[1], c[2], c[3]),
                  prev |-> [coords |-> ret.coords,
                            key |-> from_coords(ret.coords[1], ret.coords[2],
                                                ret.coords[3])]]
    /\ UNCHANGED <<voxel_write_buffer, modified_voxels, chunk_map, voxel_fn, since_fn>>
    /\ UNCHANGED <<lock, threads>>

NextCoord == FromCoords

SpecCoord == InitCoord /\ [][NextCoord]_vars

(* ------------------------------------------------------------------ *)
(* Properties of the key encoding (SpecCoord)                          *)
(* ------------------------------------------------------------------ *)

in_field(v, bits) == -pow2(bits - 1) <= v /\ v <= pow2(bits - 1) - 1

TwoKeys == ret.op = "from_coords" /\ ret.coords # ret.prev.coords

\* C19 (as stated): two distinct coordinates with x and z in the 13-bit range
\* [-4096, 4095] and y in the 6-bit range [-32, 31] have distinct keys.
C19_DistinctKeysWideXZ ==
    ( /\ TwoKeys
      /\ \A c \in {ret.coords, ret.prev.coords} :
            /\ in_field(c[1], 13)
            /\ in_field(c[2], 6)
            /\ in_field(c[3], 13) )
    => ret.key # ret.prev.key

\* C19 (as the code packs the fields): two distinct coordinates with x and y in
\* [-4096, 4095] and z in [-32, 31] have distinct keys.
C19_DistinctKeysWideXY ==
    ( /\ TwoKeys
      /\ \A c \in {ret.coords, ret.prev.coords} :
            /\ in_field(c[1], X_BITS)
            /\ in_field(c[2], Y_BITS)
            /\ in_field(c[3], Z_BITS) )
    => ret.key # ret.prev.key

\* Two coordinates of the packed range that differ only in y, by the size of a 6-bit
\* field, and have distinct keys.
C19_Witness ==
    /\ TwoKeys
    /\ ret.prev.coords = <<-X_BIAS, -Z_BIAS, Z_BIAS - 1>>
    /\ ret.coords = <<-X_BIAS, Z_BIAS, Z_BIAS - 1>>
    /\ ret.key # ret.prev.key

(* ------------------------------------------------------------------ *)
(* More properties of the lock (SpecLock)                              *)
(* ------------------------------------------------------------------ *)

\* The threads that hold a read guard of the chunk map.
GuardHolders == {lock.readers[i] : i \in 1..Len(lock.readers)}

\* C20: the DDA raycast holds no read guard of the chunk map across its traversal:
\* the guard taken for the world bounds and the one taken at a visited cell are
\* dropped before the next cell, so between two cells the raycast keeps no loader
\* from the write guard.
C20_RaycastHoldsNoGuard ==
    \A t \in DOMAIN threads : threads[t].op = "raycast" => t \notin GuardHolders

\* A raycast that returned after visiting two cells of one chunk, the first read from
\* the loaded chunk and the second, after the unload of the chunk, resolved as Unset.
C20_Witness ==
    \E t \in DOMAIN threads :
        /\ threads[t].op = "raycast"
        /\ threads[t].pc = "done"
        /\ \E i, j \in 1..Len(threads[t].seen) :
              /\ i < j
              /\ get_chunk_voxel_position(threads[t].seen[i].coords).chunk_pos =
                    get_chunk_voxel_position(threads[t].seen[j].coords).chunk_pos
              /\ threads[t].seen[i].loaded
              /\ ~is_unset(threads[t].seen[i].voxel)
              /\ ~threads[t].seen[j].loaded
              /\ is_unset(threads[t].seen[j].voxel)

(* ------------------------------------------------------------------ *)
(* More properties of the raycasts (SpecRay)                           *)
(* ------------------------------------------------------------------ *)

\* The (position, voxel) pairs of the first n cells whose voxel is not Unset, in the
\* order of the traversal.
NotUnsetPairs(cells, n) ==
    SelectSeq([i \in 1..n |-> <<cells[i].coords, get_voxel_value(cells[i].coords)>>],
              LAMBDA e : e[2] # Unset)

\* C21: in a DDA raycast the filter is called on the visited cells whose voxel is not
\* Unset and on no other, in order; no visited cell before the last one is solid and
\* accepted (an Unset, an accepted non-solid and a rejected voxel let the traversal
\* go on); the traversal stops short of the end of the segment only at an accepted
\* solid cell, which is the last cell resolved and the last pair given to the filter.
C21_DdaVisitorContinues ==
    ret.op = "raycast" =>
        LET n == Len(ret.visited)
            stops(i) ==
                /\ is_solid(get_voxel_value(ret.cells[i].coords))
                /\ filter_call(ret.filter, ret.cells[i].coords,
                               get_voxel_value(ret.cells[i].coords))
        IN /\ n <= Len(ret.cells)
           /\ \A i \in 1..n : ret.visited[i] = ret.cells[i].coords
           /\ \A k \in 1..Len(ret.filtered) : ret.filtered[k][2] # Unset
           /\ ret.filtered = NotUnsetPairs(ret.cells, n)
           /\ \A i \in 1..(n - 1) : ~stops(i)
           /\ n < Len(ret.cells) => ret.result.hit
           /\ ret.result.hit =>
                 /\ n >= 1 /\ stops(n)
                 /\ ret.result.position = ret.visited[n]
                 /\ ret.filtered[Len(ret.filtered)] =
                       <<ret.result.position, ret.result.voxel>>

\* A DDA raycast that went past an Unset cell, an Air cell the filter accepted and a
\* solid cell the filter rejected, hit a solid cell and left cells of the segment
\* beyond the hit unresolved.
C21_Witness ==
    /\ ret.op = "raycast"
    /\ ret.result.hit
    /\ Len(ret.visited) < Len(ret.cells)
    /\ \E i, j, k \in 1..(Len(ret.visited) - 1) :
          /\ get_voxel_value(ret.cells[i].coords) = Unset
          /\ get_voxel_value(ret.cells[j].coords) = Air
          /\ filter_call(ret.filter, ret.cells[j].coords, Air)
          /\ is_solid(get_voxel_value(ret.cells[k].coords))
          /\ ~filter_call(ret.filter, ret.cells[k].coords,
                          get_voxel_value(ret.cells[k].coords))

\* The chunk of a cell is absent from the chunk map or flagged empty: the stepped
\* raycast skips the samples that fall in it.
InSkippedChunk(coords) ==
    LET chunk_pos == get_chunk_voxel_position(coords).chunk_pos
    IN chunk_pos \notin DOMAIN chunk_map \/ chunk_map[chunk_pos].is_empty

\* C22 (as stated): the stepped raycast resolves no voxel at a sample whose chunk is
\* absent or flagged empty, and no hit it returns lies in such a chunk (checked for
\* the rays cast from a cell that is not solid).
C22_NoHitInSkippedChunk ==
    ret.op = "old_raycast" =>
        /\ \A q \in ret.march.trace.resolved : ~InSkippedChunk(q)
        /\ ( /\ ret.result.hit
             /\ ~is_solid(get_voxel_value(floor_as_ivec3(ret.ray.origin))) )
           => ~InSkippedChunk(ret.result.position)

\* C22 (as the code refines a hit): the stepped raycast resolves no voxel at a sample
\* whose chunk is absent or flagged empty, so the sampled cell of a hit never lies in
\* such a chunk; a hit lies in one only when refinement moved it there from a cell
\* sampled in a loaded chunk that is not flagged empty.
C22_NoSampleInSkippedChunk ==
    ret.op = "old_raycast" =>
        /\ \A q \in ret.march.trace.resolved : ~InSkippedChunk(q)
        /\ \A q \in ret.march.trace.skipped : InSkippedChunk(q)
        /\ ret.result.hit =>
              /\ ~InSkippedChunk(ret.march.sampled)
              /\ InSkippedChunk(ret.result.position) =>
                    /\ ret.march.steps >= 1
                    /\ ret.result.position # ret.march.sampled

\* A stepped raycast that skipped the samples in a solid pending edit of an absent
\* chunk and returned no hit.
C22_Witness ==
    /\ ret.op = "old_raycast"
    /\ ~ret.result.hit
    /\ ret.filter = "accept_all"
    /\ \E q \in ret.march.trace.skipped :
          /\ is_solid(get_voxel_value(q))
          /\ find_first(voxel_write_buffer, q) # 0
          /\ get_chunk_voxel_position(q).chunk_pos \notin DOMAIN chunk_map

\* The cell k cells from coords along normal.
Along(coords, normal, k) ==
    <<coords[1] + k * normal[1], coords[2] + k * normal[2], coords[3] + k * normal[3]>>

\* C23: a hit of the stepped raycast was refined in at most 3 steps, each onto the
\* solid voxel adjacent along the normal; the hit carries the refined position and
\* voxel and the filter accepts that pair; when fewer than 3 steps were made, the
\* voxel adjacent to the hit along its normal is not solid. The candidates the
\* filter rejected are refined pairs too.
C23_RefinementBounded ==
    ret.op = "old_raycast" =>
        /\ \A c \in ret.march.trace.rejected :
              /\ c[2] = get_voxel_value(c[1])
              /\ is_solid(c[2])
              /\ ~filter_call(ret.filter, c[1], c[2])
        /\ ret.result.hit =>
              LET m == ret.march
                  normal == ret.result.normal.value
              IN /\ m.steps \in 0..3
                 /\ ret.result.normal.some
                 /\ ret.result.position = Along(m.sampled, normal, m.steps)
                 /\ \A k \in 0..m.steps :
                       is_solid(get_voxel_value(Along(m.sampled, normal, k)))
                 /\ ret.result.voxel = get_voxel_value(ret.result.position)
                 /\ filter_call(ret.filter, ret.result.position, ret.result.voxel)
                 /\ m.steps < 3 =>
                       ~is_solid(get_voxel_value(Along(ret.result.position, normal, 1)))

\* A stepped raycast, cast from a cell that is not solid, whose hit was moved by
\* refinement, in fewer than 3 steps, to a voxel with no solid voxel before it.
C23_Witness ==
    /\ ret.op = "old_raycast"
    /\ ret.result.hit
    /\ ~is_solid(get_voxel_value(floor_as_ivec3(ret.ray.origin)))
    /\ ret.march.steps \in 1..2
    /\ ret.result.position # ret.march.sampled
    /\ ~is_solid(get_voxel_value(Along(ret.result.position, ret.result.normal.value, 1)))

\* C24: a hit returned by raycast or by old_raycast carries a Solid voxel, which is
\* the resolver's value at the reported position and which the filter of the call
\* accepts at that position; with a filter that rejects everything neither returns a
\* hit.
C24_HitsAreAcceptedSolid ==
    ret.op \in {"raycast", "old_raycast"} =>
        /\ ret.result.hit =>
              /\ ret.result.voxel.tag = "Solid"
              /\ ret.result.voxel \notin {Air, Unset}
              /\ ret.result.voxel = get_voxel_value(ret.result.position)
              /\ filter_call(ret.filter, ret.result.position, ret.result.voxel)
        /\ ret.filter = "reject_all" =>
              /\ ~ret.result.hit
              /\ ~raycast_value(ret.ray, "reject_all").result.hit
              /\ ~old_raycast_value(ret.ray, "reject_all").result.hit

\* A stepped raycast with a filter that rejected a solid candidate and accepted the
\* hit, on a ray for which the DDA raycast returns a hit too.
C24_Witness ==
    /\ ret.op = "old_raycast"
    /\ ret.filter = "reject_material_2"
    /\ ret.march.trace.rejected # {}
    /\ ret.result.hit
    /\ raycast_value(ret.ray, ret.filter).result.hit
====
